---- MODULE Spec2Model ----
(***************************************************************************)
(* R1CS arithmetization benchmarks (bellman_mimc, bellman_sha256).         *)
(*                                                                         *)
(* Three specifications share this module:                                 *)
(*   SpecSynth    MiMCDemo::synthesize, one statement group per step,      *)
(*                against a key-generation or a proving constraint system  *)
(*   SpecSha      Sha256Demo::synthesize                                   *)
(*   SpecHarness  the sample loops of the two main programs                *)
(*                                                                         *)
(* Option<T> is a sequence: <<>> is None and <<v>> is Some(v).             *)
(***************************************************************************)
EXTENDS Integers, Sequences, FiniteSets, TLC

VARIABLES synth, sha, bench

vars == <<synth, sha, bench>>

-----------------------------------------------------------------------------
(* Bounds.  The source runs 91 rounds and 200..2400 repetitions; the model *)
(* keeps the loops and scales their trip counts.                           *)

\* const MIMC_ROUNDS: usize = 91 in the source, scaled
MIMC_ROUNDS == 2

\* largest MiMCDemo.repetitions the synthesis specification tries
MaxReps == 2

-----------------------------------------------------------------------------
(* The scalar field E::Fr, scaled to a small prime field.                  *)

FrModulus == 5

Fr == 0..(FrModulus - 1)

add_assign(a, b) == (a + b) % FrModulus

mul_assign(a, b) == (a * b) % FrModulus

square(a) == (a * a) % FrModulus

\* the round constants the synthesis specification draws from
ConstVals == {0, 1, 3}

-----------------------------------------------------------------------------
(* Option                                                                  *)

NoneV == <<>>

Some(v) == <<v>>

IsSome(o) == o # <<>>

unwrap(o) == o[1]

OptionFr == {NoneV} \cup {Some(v) : v \in Fr}

-----------------------------------------------------------------------------
(* The ConstraintSystem the circuit is synthesized against.                *)
(*   kind   "keygen": alloc never calls the value closure                  *)
(*          "proving": alloc calls it and returns its error                *)
(*   input  assignment of the public inputs, input[1] is CS::one()         *)
(*   aux    assignment of the private witnesses                            *)
(*   ops    every alloc / alloc_input / enforce call in order              *)

Aux(n) == [tag |-> "Aux", idx |-> n]

Input(n) == [tag |-> "Input", idx |-> n]

one == Input(0)

\* lc + (coeff, var)
Term(c, v) == [coeff |-> c, var |-> v]

NewCS(kind) ==
    [kind |-> kind, input |-> << Some(1) >>, aux |-> << >>, ops |-> << >>]

\* what the constraint system keeps of a value closure's result
Stored(cs, value) == IF cs.kind = "proving" THEN value ELSE NoneV

\* cs.alloc(|| .., || value.ok_or(AssignmentMissing)): [ok, cs, var]
alloc(cs, value) ==
    IF cs.kind = "proving" /\ ~IsSome(value)
    THEN [ok |-> FALSE, cs |-> cs, var |-> one]
    ELSE [ok |-> TRUE,
          cs |-> [cs EXCEPT !.aux = Append(@, Stored(cs, value)),
                            !.ops = Append(@, [op |-> "alloc", var |-> Aux(Len(cs.aux)),
                                               a |-> << >>, b |-> << >>, c |-> << >>])],
          var |-> Aux(Len(cs.aux))]

\* cs.alloc_input(|| .., || value.ok_or(AssignmentMissing)): [ok, cs, var]
alloc_input(cs, value) ==
    IF cs.kind = "proving" /\ ~IsSome(value)
    THEN [ok |-> FALSE, cs |-> cs, var |-> one]
    ELSE [ok |-> TRUE,
          cs |-> [cs EXCEPT !.input = Append(@, Stored(cs, value)),
                            !.ops = Append(@, [op |-> "alloc_input", var |-> Input(Len(cs.input)),
                                               a |-> << >>, b |-> << >>, c |-> << >>])],
          var |-> Input(Len(cs.input))]

\* cs.enforce(|| .., |lc| a, |lc| b, |lc| c)
enforce(cs, a, b, c) ==
    [cs EXCEPT !.ops = Append(@, [op |-> "enforce", var |-> one,
                                  a |-> a, b |-> b, c |-> c])]

-----------------------------------------------------------------------------
(* fn mimc: the reference evaluator.  <<>> stands for the assert_eq! panic. *)

RECURSIVE mimc_rounds(_, _, _, _)
mimc_rounds(x, k, constants, i) ==
    IF i > MIMC_ROUNDS THEN x
    ELSE LET tmp1 == add_assign(add_assign(x, constants[i]), k)
             tmp2 == square(tmp1)
             tmp3 == square(tmp2)
             tmp4 == mul_assign(tmp3, tmp2)
             tmp5 == mul_assign(tmp4, tmp1)
         IN  mimc_rounds(tmp5, k, constants, i + 1)

mimc(x, k, constants) ==
    IF Len(constants) # MIMC_ROUNDS THEN NoneV
    ELSE Some(mimc_rounds(x, k, constants, 1))

-----------------------------------------------------------------------------
(* MiMCDemo::synthesize as a record-to-record step function.               *)
(*   pc      the statement group to run next                               *)
(*   result  "Running", "Ok", "AssignmentMissing" (the Err returned),      *)
(*           "PanicAssert" (assert_eq! on the constants' length),          *)
(*           "PanicUnwrap" (Option::unwrap on None)                        *)
(*   rep, i  the loop counters (i counts from 0 as in the source)          *)

SynthStart(x, k, constants, repetitions, kind) ==
    [self_x |-> x, self_k |-> k, constants |-> constants, repetitions |-> repetitions,
     cs |-> NewCS(kind), pc |-> "assert", result |-> "Running",
     rep |-> 0, i |-> 0,
     x_value |-> NoneV, k_value |-> NoneV, x |-> one, k |-> one,
     tmp_value |-> NoneV, tmp |-> one,
     tmp_2_value |-> NoneV, tmp_2 |-> one,
     tmp_3_value |-> NoneV, tmp_3 |-> one]

Finish(s, result) == [s EXCEPT !.pc = "done", !.result = result]

\* mutant: only constants that are too short are rejected
StepAssert_OnlyShort(s) ==
    IF Len(s.constants) < MIMC_ROUNDS THEN Finish(s, "PanicAssert")
    ELSE [s EXCEPT !.pc = "alloc_x"]

\* assert_eq!(self.constants.len(), MIMC_ROUNDS)
StepAssert(s) ==
    IF Len(s.constants) # MIMC_ROUNDS THEN Finish(s, "PanicAssert")
    ELSE [s EXCEPT !.pc = "alloc_x"]

\* mutant: x_value is not reset, a repetition continues from the last image
StepAllocX_Chained(s) ==
    IF s.rep >= s.repetitions THEN Finish(s, "Ok")
    ELSE LET x_value == IF s.rep = 0 THEN s.self_x ELSE s.x_value
             r == alloc(s.cs, x_value)
         IN  IF ~r.ok THEN Finish(s, "AssignmentMissing")
             ELSE [s EXCEPT !.x_value = x_value, !.x = r.var, !.cs = r.cs,
                            !.i = 0, !.pc = "alloc_k"]

\* head of `for _ in 0..(self.repetitions)`, then the allocation of x; Ok(()) after the loop
StepAllocX(s) ==
    IF s.rep >= s.repetitions THEN Finish(s, "Ok")
    ELSE LET r == alloc(s.cs, s.self_x)
         IN  IF ~r.ok THEN Finish(s, "AssignmentMissing")
             ELSE [s EXCEPT !.x_value = s.self_x, !.x = r.var, !.cs = r.cs,
                            !.i = 0, !.pc = "alloc_k"]

\* the allocation of the key
StepAllocK(s) ==
    LET r == alloc(s.cs, s.self_k)
    IN  IF ~r.ok THEN Finish(s, "AssignmentMissing")
        ELSE [s EXCEPT !.k_value = s.self_k, !.k = r.var, !.cs = r.cs, !.pc = "tmp"]

\* lc + x + k + (self.constants[i], CS::one())
RoundLC(s) == << Term(1, s.x), Term(1, s.k), Term(s.constants[s.i + 1], one) >>

\* mutant: tmp is allocated only when its value is known
StepTmp_SkipWhenUnknown(s) ==
    IF ~IsSome(s.x_value) THEN [s EXCEPT !.pc = "tmp2"]
    ELSE IF ~IsSome(s.k_value) THEN Finish(s, "PanicUnwrap")
    ELSE LET tmp_value == Some(square(add_assign(add_assign(unwrap(s.x_value),
                                                            unwrap(s.k_value)),
                                                 s.constants[s.i + 1])))
             r == alloc(s.cs, tmp_value)
         IN  [s EXCEPT !.tmp_value = tmp_value, !.tmp = r.var,
                       !.cs = enforce(r.cs, RoundLC(s), RoundLC(s), << Term(1, r.var) >>),
                       !.pc = "tmp2"]

\* tmp = (x + k + Ci)^2
StepTmp(s) ==
    IF IsSome(s.x_value) /\ ~IsSome(s.k_value) THEN Finish(s, "PanicUnwrap")
    ELSE LET tmp_value == IF IsSome(s.x_value)
                          THEN Some(square(add_assign(add_assign(unwrap(s.x_value),
                                                                 unwrap(s.k_value)),
                                                      s.constants[s.i + 1])))
                          ELSE NoneV
             r == alloc(s.cs, tmp_value)
         IN  IF ~r.ok THEN Finish(s, "AssignmentMissing")
             ELSE [s EXCEPT !.tmp_value = tmp_value, !.tmp = r.var,
                            !.cs = enforce(r.cs, RoundLC(s), RoundLC(s), << Term(1, r.var) >>),
                            !.pc = "tmp2"]

\* mutant: tmp_2 is allocated but its constraint is not registered
StepTmp2_NoEnforce(s) ==
    LET tmp_2_value == IF IsSome(s.tmp_value)
                       THEN Some(mul_assign(unwrap(s.tmp_value), unwrap(s.tmp_value)))
                       ELSE NoneV
        r == alloc(s.cs, tmp_2_value)
    IN  IF ~r.ok THEN Finish(s, "AssignmentMissing")
        ELSE [s EXCEPT !.tmp_2_value = tmp_2_value, !.tmp_2 = r.var,
                       !.cs = r.cs, !.pc = "tmp3"]

\* tmp_2 = tmp^2
StepTmp2(s) ==
    LET tmp_2_value == IF IsSome(s.tmp_value)
                       THEN Some(mul_assign(unwrap(s.tmp_value), unwrap(s.tmp_value)))
                       ELSE NoneV
        r == alloc(s.cs, tmp_2_value)
    IN  IF ~r.ok THEN Finish(s, "AssignmentMissing")
        ELSE [s EXCEPT !.tmp_2_value = tmp_2_value, !.tmp_2 = r.var,
                       !.cs = enforce(r.cs, << Term(1, s.tmp) >>, << Term(1, s.tmp) >>,
                                      << Term(1, r.var) >>),
                       !.pc = "tmp3"]

\* tmp_3 = (tmp_2)(tmp)
StepTmp3(s) ==
    IF IsSome(s.tmp_2_value) /\ ~IsSome(s.tmp_value) THEN Finish(s, "PanicUnwrap")
    ELSE LET tmp_3_value == IF IsSome(s.tmp_2_value)
                            THEN Some(mul_assign(unwrap(s.tmp_2_value), unwrap(s.tmp_value)))
                            ELSE NoneV
             r == alloc(s.cs, tmp_3_value)
         IN  IF ~r.ok THEN Finish(s, "AssignmentMissing")
             ELSE [s EXCEPT !.tmp_3_value = tmp_3_value, !.tmp_3 = r.var,
                            !.cs = enforce(r.cs, << Term(1, s.tmp_2) >>, << Term(1, s.tmp) >>,
                                           << Term(1, r.var) >>),
                            !.pc = "new_x"]

\* mutant: off by one, no round is the final one
IsFinalRound_OffByOne(i) == i = MIMC_ROUNDS

\* the last round of a repetition allocates new_x with alloc_input
IsFinalRound(i) == i = MIMC_ROUNDS - 1

\* new_x = (x + k + Ci).(tmp_3); x = new_x; the tail of both loops
StepNewX(s) ==
    IF IsSome(s.x_value) /\ ~IsSome(s.k_value) THEN Finish(s, "PanicUnwrap")
    ELSE LET rhs_value == IF IsSome(s.x_value)
                          THEN Some(add_assign(add_assign(unwrap(s.x_value),
                                                          unwrap(s.k_value)),
                                               s.constants[s.i + 1]))
                          ELSE NoneV
         IN  IF IsSome(s.tmp_3_value) /\ ~IsSome(rhs_value) THEN Finish(s, "PanicUnwrap")
             ELSE LET new_x_value == IF IsSome(s.tmp_3_value)
                                     THEN Some(mul_assign(unwrap(s.tmp_3_value),
                                                          unwrap(rhs_value)))
                                     ELSE NoneV
                      r == IF IsFinalRound(s.i) THEN alloc_input(s.cs, new_x_value)
                           ELSE alloc(s.cs, new_x_value)
                  IN  IF ~r.ok THEN Finish(s, "AssignmentMissing")
                      ELSE [s EXCEPT
                              !.cs = enforce(r.cs, RoundLC(s), << Term(1, s.tmp_3) >>,
                                             << Term(1, r.var) >>),
                              !.x = r.var, !.x_value = new_x_value,
                              !.i = s.i + 1,
                              !.rep = IF s.i + 1 < MIMC_ROUNDS THEN s.rep ELSE s.rep + 1,
                              !.pc = IF s.i + 1 < MIMC_ROUNDS THEN "tmp" ELSE "alloc_x"]

SynthStep(s) ==
    CASE s.pc = "assert"  -> StepAssert(s)
      [] s.pc = "alloc_x" -> StepAllocX(s)
      [] s.pc = "alloc_k" -> StepAllocK(s)
      [] s.pc = "tmp"     -> StepTmp(s)
      [] s.pc = "tmp2"    -> StepTmp2(s)
      [] s.pc = "tmp3"    -> StepTmp3(s)
      [] s.pc = "new_x"   -> StepNewX(s)
      [] OTHER            -> s

\* the whole call c.synthesize(&mut cs)
RECURSIVE RunSynth(_)
RunSynth(s) == IF s.pc = "done" THEN s ELSE RunSynth(SynthStep(s))

synthesize(x, k, constants, repetitions, kind) ==
    RunSynth(SynthStart(x, k, constants, repetitions, kind))

-----------------------------------------------------------------------------
(* Reading a constraint system back.                                       *)

ValueOf(cs, v) == IF v.tag = "Input" THEN cs.input[v.idx + 1] ELSE cs.aux[v.idx + 1]

RECURSIVE EvalLC(_, _, _)
EvalLC(cs, lc, n) ==
    IF n = 0 THEN 0
    ELSE add_assign(EvalLC(cs, lc, n - 1),
                    mul_assign(lc[n].coeff, unwrap(ValueOf(cs, lc[n].var))))

Eval(cs, lc) == EvalLC(cs, lc, Len(lc))

Holds(cs, con) == mul_assign(Eval(cs, con.a), Eval(cs, con.b)) = Eval(cs, con.c)

Satisfied(cs) ==
    \A n \in 1..Len(cs.ops) : cs.ops[n].op = "enforce" => Holds(cs, cs.ops[n])

\* every variable the build allocated (CS::one() is the backend's)
Allocated(cs) ==
    {Aux(n) : n \in 0..(Len(cs.aux) - 1)} \cup {Input(n) : n \in 1..(Len(cs.input) - 1)}

\* the assignment with one variable's value replaced
Perturb(cs, v, val) ==
    IF v.tag = "Input" THEN [cs EXCEPT !.input[v.idx + 1] = Some(val)]
    ELSE [cs EXCEPT !.aux[v.idx + 1] = Some(val)]

\* the shape of a build: its calls without the assigned values
Shape(cs) == cs.ops

-----------------------------------------------------------------------------
(* SpecSynth: one call of MiMCDemo::synthesize.                            *)

SeqsOfLen(S, n) == [1..n -> S]

SynthConstants ==
    UNION {SeqsOfLen(ConstVals, n) : n \in (MIMC_ROUNDS - 1)..(MIMC_ROUNDS + 1)}

IdleSha == [pc |-> "idle"]

IdleSynth == [pc |-> "idle"]

IdleBench == [pc |-> "idle"]

InitSynth ==
    /\ \E x \in OptionFr, k \in OptionFr, constants \in SynthConstants,
          repetitions \in 0..MaxReps, kind \in {"keygen", "proving"} :
           synth = SynthStart(x, k, constants, repetitions, kind)
    /\ sha = IdleSha
    /\ bench = IdleBench

CheckLength ==
    /\ synth.pc = "assert"
    /\ synth' = StepAssert(synth)
    /\ UNCHANGED <<sha, bench>>

AllocX ==
    /\ synth.pc = "alloc_x"
    /\ synth' = StepAllocX(synth)
    /\ UNCHANGED <<sha, bench>>

AllocK ==
    /\ synth.pc = "alloc_k"
    /\ synth' = StepAllocK(synth)
    /\ UNCHANGED <<sha, bench>>

RoundTmp ==
    /\ synth.pc = "tmp"
    /\ synth' = StepTmp(synth)
    /\ UNCHANGED <<sha, bench>>

RoundTmp2 ==
    /\ synth.pc = "tmp2"
    /\ synth' = StepTmp2(synth)
    /\ UNCHANGED <<sha, bench>>

RoundTmp3 ==
    /\ synth.pc = "tmp3"
    /\ synth' = StepTmp3(synth)
    /\ UNCHANGED <<sha, bench>>

RoundNewX ==
    /\ synth.pc = "new_x"
    /\ synth' = StepNewX(synth)
    /\ UNCHANGED <<sha, bench>>

NextSynth ==
    \/ CheckLength
    \/ AllocX
    \/ AllocK
    \/ RoundTmp
    \/ RoundTmp2
    \/ RoundTmp3
    \/ RoundNewX

SpecSynth == InitSynth /\ [][NextSynth]_vars

-----------------------------------------------------------------------------
(* Claims about MiMCDemo::synthesize, checked under SpecSynth.             *)

SynthDone == synth.pc = "done"

\* a finished witness-carrying build of at least one repetition
ProvedBuild ==
    /\ SynthDone
    /\ synth.result = "Ok"
    /\ synth.cs.kind = "proving"
    /\ synth.repetitions >= 1

\* the harness's input_vec: R copies of mimc(x, k, constants)
ExpectedInputs(s) ==
    [n \in 1..s.repetitions |-> mimc(unwrap(s.self_x), unwrap(s.self_k), s.constants)]

\* C1: the assignment a finished witness-carrying build computes satisfies every
\* constraint it registered, and its public inputs are CS::one() followed by R
\* copies of the reference evaluator's mimc(x, k, constants).
C1_WitnessSatisfiesAndMatchesReference ==
    ProvedBuild =>
        /\ Satisfied(synth.cs)
        /\ synth.cs.input = << Some(1) >> \o ExpectedInputs(synth)

C1_Witness ==
    /\ ProvedBuild
    /\ synth.repetitions >= 2
    /\ synth.self_x = Some(2)
    /\ synth.self_k = Some(4)
    /\ synth.constants[1] = 3

\* C2: in a finished witness-carrying build, giving any single allocated variable
\* a different field element makes at least one registered constraint false.
C2_SinglePerturbationUnsatisfiable ==
    ProvedBuild =>
        \A v \in Allocated(synth.cs) :
            \A val \in Fr \ {unwrap(ValueOf(synth.cs, v))} :
                ~Satisfied(Perturb(synth.cs, v, val))

C2_Witness ==
    /\ ProvedBuild
    /\ Satisfied(synth.cs)
    /\ Cardinality(Allocated(synth.cs)) = synth.repetitions * (2 + 4 * MIMC_ROUNDS)
    /\ \E v \in Allocated(synth.cs) : v.tag = "Input" /\ ValueOf(synth.cs, v) # Some(0)

\* C3: a build with concrete x and k makes the same alloc / alloc_input / enforce
\* calls, in the same order and with the same variables and coefficients, as the
\* shape-only build (x = None, k = None, key-generation constraint system) of the
\* same repetitions and constants, which succeeds.
C3_ShapeOnlySameOperations ==
    ProvedBuild =>
        LET shapeOnly == synthesize(NoneV, NoneV, synth.constants, synth.repetitions, "keygen")
        IN  /\ shapeOnly.result = "Ok"
            /\ Shape(shapeOnly.cs) = Shape(synth.cs)

C3_Witness ==
    /\ ProvedBuild
    /\ Len(Shape(synth.cs)) = synth.repetitions * (2 + 8 * MIMC_ROUNDS)
    /\ Shape(synth.cs)[Len(Shape(synth.cs)) - 1].op = "alloc_input"

\* C4: with constants of a length other than MIMC_ROUNDS the build panics on its
\* first statement and the constraint system stays as it was passed in; mimc
\* panics as well.
C4_WrongLengthRejectedBeforeAllocation ==
    Len(synth.constants) # MIMC_ROUNDS =>
        /\ synth.cs = NewCS(synth.cs.kind)
        /\ SynthDone => synth.result = "PanicAssert"
        /\ \A x \in Fr, k \in Fr : mimc(x, k, synth.constants) = NoneV

C4_Witness ==
    /\ SynthDone
    /\ synth.result = "PanicAssert"
    /\ Len(synth.constants) = MIMC_ROUNDS + 1
    /\ synth.repetitions >= 1

\* the alloc and alloc_input calls of a build, in order
Allocs(cs) == SelectSeq(cs.ops, LAMBDA o : o.op # "enforce")

\* allocations per repetition: x, k, and tmp, tmp2, tmp3, new_x per round
AllocsPerRep == 2 + 4 * MIMC_ROUNDS

\* C5: the n-th allocation of a build is public exactly when it is the last of
\* its repetition (the new_x of round MIMC_ROUNDS - 1); a finished build of R
\* repetitions has exactly R public variables.
C5_PublicIffFinalRoundOutput ==
    /\ LET allocs == Allocs(synth.cs)
       IN  \A n \in 1..Len(allocs) :
               (allocs[n].op = "alloc_input") <=> (n % AllocsPerRep = 0)
    /\ (SynthDone /\ synth.result = "Ok") =>
           /\ Len(synth.cs.input) - 1 = synth.repetitions
           /\ Len(synth.cs.aux) = synth.repetitions * (AllocsPerRep - 1)

C5_Witness ==
    /\ SynthDone
    /\ synth.result = "Ok"
    /\ synth.repetitions = 2
    /\ Len(synth.cs.input) = 3

\* C8 as claimed: against a key-generation constraint system a build with
\* constants of the right length never fails for a missing value, whatever of x
\* and k is present; AssignmentMissing is returned only by a witness-carrying
\* build, at the first allocation whose value is absent.
C8_ShapeOnlyNeverFailsOnMissingValue ==
    /\ (synth.cs.kind = "keygen" /\ SynthDone /\ Len(synth.constants) = MIMC_ROUNDS)
           => synth.result = "Ok"
    /\ (SynthDone /\ synth.result = "AssignmentMissing") =>
           /\ synth.cs.kind = "proving"
           /\ \/ ~IsSome(synth.self_x) /\ Len(synth.cs.aux) = 0
              \/ IsSome(synth.self_x) /\ ~IsSome(synth.self_k) /\ Len(synth.cs.aux) = 1

-----------------------------------------------------------------------------
(* Sha256Demo::synthesize.  The constraint system is any implementation of *)
(* the ConstraintSystem trait: a call into it, or into a gadget that uses  *)
(* it, may return an error.                                                *)
(*   result.kind  "Running", "Ok", "Err" (returned to the caller), "Panic" *)
(*   failure      the error a collaborator returned, if one did            *)

\* largest input_data.len() the hash specification tries
MaxLen == 2

\* the bytes input_data is drawn from
ByteVals == {0, 1, 128, 165, 255}

\* what a ConstraintSystem call can return as its Err
SynthesisErrors == {"AssignmentMissing", "Unsatisfiable"}

Faults == {NoneV} \cup {Some(e) : e \in SynthesisErrors}

\* input_byte >> bit_i
shr(byte, n) == byte \div (2 ^ n)

\* mutant: the bits of a byte are visited from bit 0 up
BitOrder_Ascending == [n \in 1..8 |-> n - 1]

\* (0..8).rev()
BitOrder == [n \in 1..8 |-> 8 - n]

ShaStart(input_data, kind) ==
    [input_data |-> input_data, cs |-> NewCS(kind),
     pc |-> "alloc_bit", byte_i |-> 0, bit_n |-> 1,
     foobar |-> << >>, gadget_input |-> NoneV, packed |-> FALSE,
     failure |-> NoneV, result |-> [kind |-> "Running", err |-> NoneV]]

ShaFinish(s, kind, fault) ==
    [s EXCEPT !.pc = "done", !.failure = fault, !.result = [kind |-> kind, err |-> fault]]

\* AllocatedBit::alloc(cs, value): cs.alloc of the bit, then the boolean constraint
\* (1 - a) * a = 0
AllocatedBit_alloc(cs, value) ==
    LET r == alloc(cs, IF IsSome(value) THEN Some(IF unwrap(value) THEN 1 ELSE 0) ELSE NoneV)
    IN  IF ~r.ok THEN [ok |-> FALSE, cs |-> cs, bit |-> [variable |-> one, value |-> value]]
        ELSE [ok |-> TRUE,
              cs |-> enforce(r.cs, << Term(1, one), Term(FrModulus - 1, r.var) >>,
                             << Term(1, r.var) >>, << >>),
              bit |-> [variable |-> r.var, value |-> value]]

\* one turn of the inner loop: foobar.push(AllocatedBit::alloc(..).unwrap().into()),
\* and the heads of both loops
ShaStepAllocBit(s, fault) ==
    IF s.byte_i >= Len(s.input_data) THEN [s EXCEPT !.pc = "sha256"]
    ELSE LET input_byte == s.input_data[s.byte_i + 1]
             bit_i == BitOrder[s.bit_n]
             r == AllocatedBit_alloc(s.cs, Some(shr(input_byte, bit_i) % 2 = 1))
         IN  IF IsSome(fault) THEN ShaFinish(s, "Panic", fault)
             ELSE IF ~r.ok THEN ShaFinish(s, "Panic", Some("AssignmentMissing"))
             ELSE [s EXCEPT !.cs = r.cs, !.foobar = Append(@, r.bit),
                            !.bit_n = IF s.bit_n = 8 THEN 1 ELSE s.bit_n + 1,
                            !.byte_i = IF s.bit_n = 8 THEN s.byte_i + 1 ELSE s.byte_i]

\* let hash = sha256(r1, &foobar).unwrap()
ShaStepGadget(s, fault) ==
    IF IsSome(fault) THEN [ShaFinish(s, "Panic", fault) EXCEPT !.gadget_input = Some(s.foobar)]
    ELSE [s EXCEPT !.gadget_input = Some(s.foobar), !.pc = "pack"]

\* multipack::pack_into_inputs(cs, &hash)?; Ok(())
ShaStepPack(s, fault) ==
    IF IsSome(fault) THEN ShaFinish(s, "Err", fault)
    ELSE [ShaFinish(s, "Ok", NoneV) EXCEPT !.packed = TRUE]

ShaInputs == UNION {SeqsOfLen(ByteVals, n) : n \in 0..MaxLen}

InitSha ==
    /\ \E input_data \in ShaInputs, kind \in {"keygen", "proving"} :
           sha = ShaStart(input_data, kind)
    /\ synth = IdleSynth
    /\ bench = IdleBench

AllocBit ==
    /\ sha.pc = "alloc_bit"
    /\ \E fault \in Faults : sha' = ShaStepAllocBit(sha, fault)
    /\ UNCHANGED <<synth, bench>>

HashGadget ==
    /\ sha.pc = "sha256"
    /\ \E fault \in Faults : sha' = ShaStepGadget(sha, fault)
    /\ UNCHANGED <<synth, bench>>

PackIntoInputs ==
    /\ sha.pc = "pack"
    /\ \E fault \in Faults : sha' = ShaStepPack(sha, fault)
    /\ UNCHANGED <<synth, bench>>

NextSha ==
    \/ AllocBit
    \/ HashGadget
    \/ PackIntoInputs

SpecSha == InitSha /\ [][NextSha]_vars

\* C7 as claimed: an error from boolean allocation, from the hash gadget or from
\* the packing step is the Err the build returns, unchanged, and the build ends
\* in no other way.
C7_CollaboratorErrorIsReturned ==
    (sha.pc = "done" /\ IsSome(sha.failure)) =>
        /\ sha.result.kind = "Err"
        /\ sha.result.err = sha.failure

\* C9: when the hash gadget is called the build has allocated exactly 8 * L
\* boolean witnesses, and the gadget's input holds at position 8*j + b (from 0)
\* the variable allocated 8*j + b -th, carrying bit 7 - b of byte j.
C9_BitsMostSignificantFirst ==
    IsSome(sha.gadget_input) =>
        LET bits == unwrap(sha.gadget_input)
            L == Len(sha.input_data)
        IN  /\ Len(bits) = 8 * L
            /\ Len(sha.cs.aux) = 8 * L
            /\ Len(sha.cs.input) = 1
            /\ \A j \in 0..(L - 1) : \A b \in 0..7 :
                   /\ bits[8 * j + b + 1].variable = Aux(8 * j + b)
                   /\ bits[8 * j + b + 1].value
                          = Some((sha.input_data[j + 1] \div (2 ^ (7 - b))) % 2 = 1)

C9_Witness ==
    /\ IsSome(sha.gadget_input)
    /\ sha.input_data = << 165, 1 >>
    /\ Len(unwrap(sha.gadget_input)) = 16
    /\ unwrap(sha.gadget_input)[1].value = Some(TRUE)
    /\ unwrap(sha.gadget_input)[2].value = Some(FALSE)
    /\ unwrap(sha.gadget_input)[16].value = Some(TRUE)

-----------------------------------------------------------------------------
(* The proving backend as the two main programs use it.                    *)
(*   params  [id, shape, num_inputs]: the keys of one generate_random_     *)
(*           parameters call; id tells two calls apart                     *)
(*   proof   [a, b, c, origin]: the three group elements, and whether the  *)
(*           object came from create_random_proof or from Proof::read      *)
(*   issued  what the backend proved last: the proof's elements, the keys, *)
(*           the circuit's shape, its public inputs, and whether its       *)
(*           assignment satisfied its constraints                          *)

\* const SAMPLES: u32 = 12 in the source, scaled
SAMPLES == 2

\* const MIMC_STEP: usize = 200 in the source, scaled
MIMC_STEP == 1

\* const NUM_HASHES : usize = 10 in the source, scaled
NUM_HASHES == 2

\* the values the harness specification draws the round constants from
BenchConstVals == {0, 3}

\* the values it draws the preimage and the key from
BenchVals == {1, 4}

\* the values a group element of a proof is drawn from
ProofVals == {0, 1}

Proofs == [a : ProofVals, b : ProofVals, c : ProofVals, origin : {"create"}]

\* proof.write(&mut proof_vec): appends the three elements
ProofWrite(buf, proof) == buf \o << proof.a, proof.b, proof.c >>

\* Proof::read(&proof_vec[..]): the three elements at the front of the buffer
ProofRead(buf) ==
    IF Len(buf) < 3 THEN NoneV
    ELSE Some([a |-> buf[1], b |-> buf[2], c |-> buf[3], origin |-> "read"])

\* mutant: the buffer is not emptied
truncate_Keep(v, n) == v

\* Vec::truncate(n)
truncate(v, n) == IF n < Len(v) THEN SubSeq(v, 1, n) ELSE v

SameProof(p, q) == p.a = q.a /\ p.b = q.b /\ p.c = q.c

\* verify_proof(&pvk, &proof, &inputs): "Err" when the number of inputs is not the
\* keys', else whether the proof is the one issued under these keys for a satisfied
\* circuit of the keys' shape with these public inputs
verify_proof(pvk, proof, inputs, issued) ==
    IF Len(inputs) # pvk.num_inputs THEN "Err"
    ELSE IF /\ issued.params = pvk
            /\ issued.shape = pvk.shape
            /\ issued.sat
            /\ SameProof(issued.proof, proof)
            /\ issued.publics = inputs
         THEN "True"
         ELSE "False"

-----------------------------------------------------------------------------
(* SpecHarness: fn main of bellman_mimc and of bellman_sha256.  A sample's *)
(* let bindings are cleared when its loop turn ends; proof_vec and the     *)
(* round constants are declared outside the loop.                          *)

SampleLocals ==
    [num |-> 0, params |-> NoneV, pvk |-> NoneV, x |-> NoneV, k |-> NoneV,
     data |-> NoneV, more_data |-> NoneV,
     input_vec |-> << >>, proof_made |-> NoneV, proof_read |-> NoneV,
     verify_arg |-> NoneV, issued |-> NoneV]

BenchStart(harness, constants) ==
    [harness |-> harness, constants |-> constants, proof_vec |-> << >>,
     sample_idx |-> 0, pc |-> "keygen", outcome |-> "Running",
     local |-> SampleLocals]

Abort(b, outcome) == [b EXCEPT !.pc = "done", !.outcome = outcome]

InitHarness ==
    /\ \/ \E constants \in SeqsOfLen(BenchConstVals, MIMC_ROUNDS) :
              bench = BenchStart("mimc", constants)
       \/ bench = BenchStart("sha256", << >>)
    /\ synth = IdleSynth
    /\ sha = IdleSha

\* main, lines 197-213: the shape-only circuit, the keys, the prepared key
MimcKeyGen ==
    /\ bench.harness = "mimc"
    /\ bench.pc = "keygen"
    /\ LET num_repetitions == (bench.sample_idx + 1) * MIMC_STEP
           run == synthesize(NoneV, NoneV, bench.constants, num_repetitions, "keygen")
           params == [id |-> bench.sample_idx, shape |-> Shape(run.cs),
                      num_inputs |-> Len(run.cs.input) - 1]
       IN  bench' = IF run.result # "Ok" THEN Abort(bench, "PanicUnwrap")
                    ELSE [bench EXCEPT !.local.num = num_repetitions,
                                       !.local.params = Some(params),
                                       !.local.pvk = Some(params),
                                       !.pc = "witness"]
    /\ UNCHANGED <<synth, sha>>

\* main, lines 217-233: x, k, the expected inputs, the emptied buffer
MimcWitness ==
    /\ bench.harness = "mimc"
    /\ bench.pc = "witness"
    /\ \E x \in BenchVals, k \in BenchVals :
          LET image == mimc(x, k, bench.constants)
          IN  bench' = IF ~IsSome(image) THEN Abort(bench, "PanicAssert")
                       ELSE [bench EXCEPT
                               !.local.x = Some(x), !.local.k = Some(k),
                               !.local.input_vec = [n \in 1..bench.local.num |-> image],
                               !.proof_vec = truncate(bench.proof_vec, 0),
                               !.pc = "prove"]
    /\ UNCHANGED <<synth, sha>>

\* main, line 238: create_random_proof(c, &params, rng).unwrap()
MimcProve ==
    /\ bench.harness = "mimc"
    /\ bench.pc = "prove"
    /\ LET run == synthesize(bench.local.x, bench.local.k, bench.constants,
                             bench.local.num, "proving")
       IN  \/ /\ run.result # "Ok"
              /\ bench' = Abort(bench, "PanicUnwrap")
           \/ /\ run.result = "Ok"
              /\ \E proof \in Proofs :
                    bench' = [bench EXCEPT
                                !.local.proof_made = Some(proof),
                                !.local.issued =
                                    Some([proof |-> proof, params |-> unwrap(bench.local.params),
                                          shape |-> Shape(run.cs),
                                          publics |-> Tail(run.cs.input),
                                          sat |-> Satisfied(run.cs)]),
                                !.pc = "write"]
    /\ UNCHANGED <<synth, sha>>

\* main, lines 240-241: proof.write(&mut proof_vec).unwrap(); the proof is dropped
MimcWrite ==
    /\ bench.harness = "mimc"
    /\ bench.pc = "write"
    /\ bench' = [bench EXCEPT
                   !.proof_vec = ProofWrite(bench.proof_vec, unwrap(bench.local.proof_made)),
                   !.local.proof_made = NoneV,
                   !.pc = "read"]
    /\ UNCHANGED <<synth, sha>>

\* main, line 246: Proof::read(&proof_vec[..]).unwrap()
MimcRead ==
    /\ bench.harness = "mimc"
    /\ bench.pc = "read"
    /\ bench' = IF ~IsSome(ProofRead(bench.proof_vec)) THEN Abort(bench, "PanicUnwrap")
                ELSE [bench EXCEPT !.local.proof_read = ProofRead(bench.proof_vec),
                                   !.pc = "verify"]
    /\ UNCHANGED <<synth, sha>>

\* assert!(verify_proof(&pvk, &proof, &inputs).unwrap()) on the given proof
VerifyStep(b, proof) ==
    LET v == verify_proof(unwrap(b.local.pvk), unwrap(proof), b.local.input_vec,
                          unwrap(b.local.issued))
        called == [b EXCEPT !.local.verify_arg = proof]
    IN  IF v = "Err" THEN Abort(called, "PanicUnwrap")
        ELSE IF v = "False" THEN Abort(called, "PanicAssert")
        ELSE [called EXCEPT !.pc = "report"]

\* mutant: the proof verified is the one create_random_proof returned
MimcVerify_InMemory ==
    /\ bench.harness = "mimc"
    /\ bench.pc = "verify"
    /\ bench' = VerifyStep(bench, Some(unwrap(bench.local.issued).proof))
    /\ UNCHANGED <<synth, sha>>

\* main, line 248: the proof verified is the one Proof::read returned
MimcVerify ==
    /\ bench.harness = "mimc"
    /\ bench.pc = "verify"
    /\ bench' = VerifyStep(bench, bench.local.proof_read)
    /\ UNCHANGED <<synth, sha>>

\* the end of a loop turn: the report, the sample's bindings go out of scope
NextSample(b, samples) ==
    IF b.sample_idx + 1 < samples
    THEN [b EXCEPT !.sample_idx = b.sample_idx + 1, !.local = SampleLocals, !.pc = "keygen"]
    ELSE [b EXCEPT !.sample_idx = b.sample_idx + 1, !.local = SampleLocals,
                   !.pc = "done", !.outcome = "Finished"]

\* main, lines 249-262
MimcReport ==
    /\ bench.harness = "mimc"
    /\ bench.pc = "report"
    /\ bench' = NextSample(bench, SAMPLES)
    /\ UNCHANGED <<synth, sha>>

\* the digest of a byte sequence, and its packing into public inputs
Sha256Of(data) == [digest_of |-> data]

\* eval_sha256, lines 51-67 (num_bytes from main, line 100): the first num_bytes
\* bytes of the seeded generator, the keys of their circuit
ShaKeyGen ==
    /\ bench.harness = "sha256"
    /\ bench.pc = "keygen"
    /\ LET num_bytes == ((bench.sample_idx + 1) * 64) - 9
           data == [from |-> 0, len |-> num_bytes]
           params == [id |-> bench.sample_idx, shape |-> [input_bits |-> 8 * num_bytes],
                      num_inputs |-> 1]
       IN  bench' = [bench EXCEPT !.local.num = num_bytes,
                                  !.local.data = Some(data),
                                  !.local.params = Some(params),
                                  !.local.pvk = Some(params),
                                  !.pc = "witness"]
    /\ UNCHANGED <<synth, sha>>

\* eval_sha256, lines 69-80: the next num_bytes bytes and their digest
ShaWitness ==
    /\ bench.harness = "sha256"
    /\ bench.pc = "witness"
    /\ bench' = [bench EXCEPT
                   !.local.more_data = Some([from |-> bench.local.num, len |-> bench.local.num]),
                   !.pc = "prove"]
    /\ UNCHANGED <<synth, sha>>

\* eval_sha256, line 83: create_random_proof(more_c, &params, rng_foo).unwrap()
ShaProve ==
    /\ bench.harness = "sha256"
    /\ bench.pc = "prove"
    /\ \E proof \in Proofs :
          bench' = [bench EXCEPT
                      !.local.proof_made = Some(proof),
                      !.local.issued =
                          Some([proof |-> proof, params |-> unwrap(bench.local.params),
                                shape |-> [input_bits |-> 8 * unwrap(bench.local.more_data).len],
                                publics |-> << Sha256Of(unwrap(bench.local.more_data)) >>,
                                sat |-> TRUE]),
                      !.pc = "verify"]
    /\ UNCHANGED <<synth, sha>>

\* eval_sha256, lines 86-94: the packed digest, verify_proof on the proof made
ShaVerify ==
    /\ bench.harness = "sha256"
    /\ bench.pc = "verify"
    /\ bench' = VerifyStep([bench EXCEPT !.local.input_vec =
                                << Sha256Of(unwrap(bench.local.more_data)) >>],
                           bench.local.proof_made)
    /\ UNCHANGED <<synth, sha>>

\* main, lines 99-103: the next size
ShaReport ==
    /\ bench.harness = "sha256"
    /\ bench.pc = "report"
    /\ bench' = NextSample(bench, NUM_HASHES)
    /\ UNCHANGED <<synth, sha>>

NextHarness ==
    \/ MimcKeyGen
    \/ MimcWitness
    \/ MimcProve
    \/ MimcWrite
    \/ MimcRead
    \/ MimcVerify
    \/ MimcReport
    \/ ShaKeyGen
    \/ ShaWitness
    \/ ShaProve
    \/ ShaVerify
    \/ ShaReport

SpecHarness == InitHarness /\ [][NextHarness]_vars

-----------------------------------------------------------------------------
(* Claims about the harnesses, checked under SpecHarness.                  *)

\* a sample whose verify_proof call has returned true
Verified == bench.pc = "report"

\* the proof handed to verify_proof went through write and read
RoundTripped ==
    /\ IsSome(bench.local.verify_arg)
    /\ unwrap(bench.local.verify_arg).origin = "read"
    /\ bench.local.verify_arg = bench.local.proof_read
    /\ bench.local.proof_read = ProofRead(bench.proof_vec)

\* C6 as claimed: in every sample of both harnesses the proof verified is one that
\* was serialized and then deserialized.
C6_BothHarnessesRoundTrip ==
    IsSome(bench.local.verify_arg) => RoundTripped

\* C6 amended: in every sample of the cipher harness the proof verified is the one
\* read back from the buffer it was written to; the hash harness writes nothing
\* and verifies the proof object create_random_proof returned.
C6_CipherRoundTripsHashDoesNot ==
    IsSome(bench.local.verify_arg) =>
        /\ bench.harness = "mimc" => RoundTripped
        /\ bench.harness = "sha256" =>
               /\ bench.local.verify_arg = bench.local.proof_made
               /\ unwrap(bench.local.verify_arg).origin = "create"
               /\ bench.proof_vec = << >>
               /\ ~IsSome(bench.local.proof_read)

C6_Witness ==
    /\ bench.harness = "mimc"
    /\ Verified
    /\ bench.sample_idx = 1
    /\ RoundTripped

\* C10: in the cipher harness, from the moment a sample has written its proof
\* until its turn ends, proof_vec is exactly the serialization of the proof
\* created in this sample; the proof read back and verified is that proof, and
\* the keys it is verified under are the ones this sample generated.
C10_BufferHoldsOnlyThisSamplesProof ==
    (bench.harness = "mimc" /\ bench.pc \in {"read", "verify", "report"}) =>
        LET issued == unwrap(bench.local.issued)
        IN  /\ issued.params.id = bench.sample_idx
            /\ unwrap(bench.local.pvk).id = bench.sample_idx
            /\ bench.proof_vec = ProofWrite(<< >>, issued.proof)
            /\ bench.pc \in {"verify", "report"} =>
                   SameProof(unwrap(bench.local.proof_read), issued.proof)
            /\ bench.pc = "report" =>
                   SameProof(unwrap(bench.local.verify_arg), issued.proof)

\* the second sample reads back a proof that differs from the first one's
C10_Witness ==
    /\ bench.harness = "mimc"
    /\ bench.pc = "report"
    /\ bench.sample_idx = 1
    /\ bench.proof_vec = << 1, 0, 1 >>
    /\ unwrap(bench.local.proof_read).a = 1

====
